---- MODULE Spec2Model ----
(***************************************************************************)
(* Model of the travel assistant: the LangGraph loop of agents/agent.py    *)
(* (handle_conversation_flow <-> tool_executor), the two search tools and  *)
(* the Streamlit session handler of app.py that starts one run per user    *)
(* input.                                                                  *)
(*                                                                         *)
(* Text is modelled as a sequence of string tokens, so that the f-string   *)
(* f"Tool error: {e}" is the token "Tool error: " followed by the tokens   *)
(* of str(e).  A tool-call argument value is None, an integer or a string, *)
(* the string being a sequence of one-character strings so that pydantic   *)
(* v1's coercions (int(v) on a string for an int field, str(v) on an       *)
(* integer for a str field) can be computed.  A message id of 0 stands for *)
(* id=None.                                                                *)
(***************************************************************************)
EXTENDS Integers, Sequences, FiniteSets, TLC

\* ------------------------------------------------------------------ bounds
\* The user's inputs, the model's responses and the search service's answers
\* are the inputs of the program.  A session takes MaxTurns user inputs; the
\* model gives MaxModelCalls responses of its choice (a response or a failure)
\* holding MaxToolCalls requests in all.  Not counted is a response that
\* issues once more a batch the model has already issued twice in a row, none
\* of its requests having reached the search service: a model may repeat
\* such a batch for as long as the graph calls it.
MaxTurns == 2        \* user inputs per session
MaxModelCalls == 4   \* model responses drawn per session
MaxToolCalls == 2    \* tool-call requests drawn per session

\* ------------------------------------------------------- program constants
\* pydantic v1: int_validator refuses a str of more than max_str_int characters
max_str_int == 4300

\* langgraph's default for the supersteps of one graph.invoke; app.py passes
\* no config
recursion_limit == 25

VARIABLES
    conversation_history,  \* st.session_state.conversation_history
    agent_messages,        \* st.session_state.agent_messages
    messages,              \* State["messages"] of the running graph
    pc,                    \* "idle" | "thinking" | "acting" | "end"
    llm_input,             \* the message list of the latest self.llm.invoke
    run_input,             \* the state the current run was invoked with
    run_steps,             \* nodes executed in the current run, in order, each with the
                           \* number of requests / results it emitted (-1: it raised)
    batch,                 \* requests, results and per-request events of the latest tool_executor step
    run_outcome,           \* "none" | "running" | "returned" | "raised"
    turn,                  \* user inputs so far
    model_calls,           \* model calls so far
    drawn_calls,           \* model responses drawn so far
    drawn_requests,        \* tool-call requests drawn so far
    next_call,             \* tool-call identifiers handed out so far
    next_id                \* message ids handed out so far

vars == <<conversation_history, agent_messages, messages, pc, llm_input,
          run_input, run_steps, batch, run_outcome, turn, model_calls,
          drawn_calls, drawn_requests, next_call, next_id>>

\* ---------------------------------------------------------------- helpers
Range(s) == {s[i] : i \in 1..Len(s)}

RECURSIVE SeqsUpTo(_, _)
\* all sequences over S of length 0..n
SeqsUpTo(S, n) ==
    IF n = 0 THEN {<<>>}
    ELSE LET shorter == SeqsUpTo(S, n - 1)
         IN shorter \cup {Append(s, x) : s \in {t \in shorter : Len(t) = n - 1}, x \in S}

\* --------------------------------------------------------------- messages
NoCalls == <<>>

SystemMessage(content) ==
    [type |-> "system", id |-> 0, content |-> content,
     tool_calls |-> NoCalls, tool_call_id |-> 0]

HumanMessage(content) ==
    [type |-> "human", id |-> 0, content |-> content,
     tool_calls |-> NoCalls, tool_call_id |-> 0]

AIMessage(content, tool_calls) ==
    [type |-> "ai", id |-> 0, content |-> content,
     tool_calls |-> tool_calls, tool_call_id |-> 0]

ToolMessage(tool_call_id, content) ==
    [type |-> "tool", id |-> 0, content |-> content,
     tool_calls |-> NoCalls, tool_call_id |-> tool_call_id]

system_prompt == <<"You are a highly capable travel assistant">>

\* ----------------------------------------------------------- add_messages
RECURSIVE AssignIds(_, _)
\* every message whose id is None gets a fresh id, counted from n + 1
AssignIds(ms, n) ==
    IF ms = <<>> THEN <<>>
    ELSE IF Head(ms).id = 0
         THEN <<[Head(ms) EXCEPT !.id = n + 1]>> \o AssignIds(Tail(ms), n + 1)
         ELSE <<Head(ms)>> \o AssignIds(Tail(ms), n)

NumFresh(ms) == Cardinality({i \in 1..Len(ms) : ms[i].id = 0})

RECURSIVE MergeById(_, _, _)
\* a right message whose id is in left replaces that entry, else it is appended
MergeById(left, merged, right) ==
    IF right = <<>> THEN merged
    ELSE LET m == Head(right)
             hits == {i \in 1..Len(left) : left[i].id = m.id}
         IN IF hits # {}
            THEN LET idx == CHOOSE i \in hits : \A j \in hits : j <= i
                 IN MergeById(left, [merged EXCEPT ![idx] = m], Tail(right))
            ELSE MergeById(left, Append(merged, m), Tail(right))

\* faulty variant: the channel has no reducer, a node's return replaces the state
add_messages_Overwrite(left, right, n) == AssignIds(right, n + NumFresh(left))

add_messages(left, right, n) ==
    LET l == AssignIds(left, n)
        r == AssignIds(right, n + NumFresh(left))
    IN MergeById(l, l, r)

\* ------------------------------------------------------------ tool schemas
\* argument values, raw (as the model emits them) and validated
NoneVal == [kind |-> "none", str |-> <<>>, int |-> 0]

StrVal(chars) == [kind |-> "str", str |-> chars, int |-> 0]

IntVal(n) == [kind |-> "int", str |-> <<>>, int |-> n]

\* the digits str() writes
Digits == <<"0", "1", "2", "3", "4", "5", "6", "7", "8", "9">>

\* The decimal digits int() reads, one row per script, each row in the order
\* of the digits' values.  int() reads the digits of every script; the rows
\* are the scripts whose digits a string literal can hold.
DecimalDigits ==
    << Digits,
       <<"۰", "۱", "۲", "۳", "۴", "۵", "۶", "۷", "۸", "۹">>,
       <<"߀", "߁", "߂", "߃", "߄", "߅", "߆", "߇", "߈", "߉">>,
       <<"০", "১", "২", "৩", "৪", "৫", "৬", "৭", "৮", "৯">>,
       <<"૦", "૧", "૨", "૩", "૪", "૫", "૬", "૭", "૮", "૯">>,
       <<"௦", "௧", "௨", "௩", "௪", "௫", "௬", "௭", "௮", "௯">>,
       <<"೦", "೧", "೨", "೩", "೪", "೫", "೬", "೭", "೮", "೯">>,
       <<"෦", "෧", "෨", "෩", "෪", "෫", "෬", "෭", "෮", "෯">>,
       <<"໐", "໑", "໒", "໓", "໔", "໕", "໖", "໗", "໘", "໙">>,
       <<"႐", "႑", "႒", "႓", "႔", "႕", "႖", "႗", "႘", "႙">>,
       <<"០", "១", "២", "៣", "៤", "៥", "៦", "៧", "៨", "៩">>,
       <<"᧐", "᧑", "᧒", "᧓", "᧔", "᧕", "᧖", "᧗", "᧘", "᧙">>,
       <<"᪀", "᪁", "᪂", "᪃", "᪄", "᪅", "᪆", "᪇", "᪈", "᪉">>,
       <<"᪐", "᪑", "᪒", "᪓", "᪔", "᪕", "᪖", "᪗", "᪘", "᪙">>,
       <<"᮰", "᮱", "᮲", "᮳", "᮴", "᮵", "᮶", "᮷", "᮸", "᮹">>,
       <<"꣐", "꣑", "꣒", "꣓", "꣔", "꣕", "꣖", "꣗", "꣘", "꣙">>,
       <<"꧐", "꧑", "꧒", "꧓", "꧔", "꧕", "꧖", "꧗", "꧘", "꧙">>,
       <<"꧰", "꧱", "꧲", "꧳", "꧴", "꧵", "꧶", "꧷", "꧸", "꧹">>,
       <<"꯰", "꯱", "꯲", "꯳", "꯴", "꯵", "꯶", "꯷", "꯸", "꯹">> >>

IsDigit(c) == \E b \in 1..Len(DecimalDigits) : \E d \in 1..10 : DecimalDigits[b][d] = c

DigitValue(c) ==
    (CHOOSE d \in 1..10 : \E b \in 1..Len(DecimalDigits) : DecimalDigits[b][d] = c) - 1

\* The white space int() strips: space, tab, line feed, vertical tab, form
\* feed, carriage return, next line (U+0085), no-break space (U+00A0) and
\* ogham space mark (U+1680).  int() strips the other Unicode spaces as well
\* (U+2000..U+200A, U+2028, U+2029, U+202F, U+205F, U+3000), which a string
\* literal cannot hold.
Whitespace == {" ", "\t", "\n", "", "\f", "\r", "", " ", " "}

RECURSIVE LStrip(_)
LStrip(chars) ==
    IF chars # <<>> /\ Head(chars) \in Whitespace THEN LStrip(Tail(chars)) ELSE chars

RECURSIVE RStrip(_)
RStrip(chars) ==
    IF chars # <<>> /\ chars[Len(chars)] \in Whitespace
    THEN RStrip(SubSeq(chars, 1, Len(chars) - 1))
    ELSE chars

Strip(chars) == RStrip(LStrip(chars))

HasSign(chars) == chars # <<>> /\ Head(chars) \in {"+", "-"}

Unsigned(chars) == IF HasSign(chars) THEN Tail(chars) ELSE chars

\* int_validator accepts the string: at most max_str_int characters, and
\* int(v) succeeds on it: white space around an optional sign and decimal
\* digits, single underscores allowed between digits
IsIntText(chars) ==
    LET body == Unsigned(Strip(chars))
    IN /\ Len(chars) <= max_str_int
       /\ body # <<>>
       /\ \A i \in 1..Len(body) :
              \/ IsDigit(body[i])
              \/ /\ body[i] = "_"
                 /\ 1 < i /\ i < Len(body)
                 /\ IsDigit(body[i - 1]) /\ IsDigit(body[i + 1])

RECURSIVE DigitsValue(_, _)
\* the value of the digits of body, read after the value acc
DigitsValue(body, acc) ==
    IF body = <<>> THEN acc
    ELSE IF Head(body) = "_" THEN DigitsValue(Tail(body), acc)
         ELSE DigitsValue(Tail(body), 10 * acc + DigitValue(Head(body)))

\* int(v) of a string that IsIntText
ParseInt(chars) ==
    LET stripped == Strip(chars)
        magnitude == DigitsValue(Unsigned(stripped), 0)
    IN IF HasSign(stripped) /\ Head(stripped) = "-" THEN 0 - magnitude ELSE magnitude

RECURSIVE NatToChars(_)
NatToChars(n) ==
    IF n < 10 THEN <<Digits[n + 1]>>
    ELSE NatToChars(n \div 10) \o <<Digits[(n % 10) + 1]>>

\* str(v) of an integer
IntToChars(n) == IF n < 0 THEN <<"-">> \o NatToChars(0 - n) ELSE NatToChars(n)

\* A field of a schema.  In both schemas a field is required exactly when its
\* type is not Optional, so required also tells that None is not allowed.
Fld(name, kind, required, default) ==
    [name |-> name, kind |-> kind, required |-> required, default |-> default]

\* the validation error of one supplied value, "" if it is accepted
ValueError(f, v) ==
    IF v.kind = "none"
    THEN IF f.required THEN "none is not an allowed value" ELSE ""
    ELSE IF f.kind = "int" /\ v.kind = "str" /\ ~IsIntText(v.str)
         THEN "value is not a valid integer"
         ELSE ""

\* the validated value of an accepted one
Coerce(f, v) ==
    IF v.kind = "none" THEN NoneVal
    ELSE IF f.kind = "int"
         THEN IF v.kind = "str" THEN IntVal(ParseInt(v.str)) ELSE v
         ELSE IF v.kind = "int" THEN StrVal(IntToChars(v.int)) ELSE v

FlightsInput ==
    [model |-> "FlightsInput",
     fields |-> << Fld("departure_id", "str", FALSE, NoneVal),
                   Fld("arrival_id", "str", FALSE, NoneVal),
                   Fld("outbound_date", "str", FALSE, NoneVal),
                   Fld("return_date", "str", FALSE, NoneVal),
                   Fld("adults", "int", FALSE, IntVal(1)),
                   Fld("children", "int", FALSE, IntVal(0)),
                   Fld("infants_in_seat", "int", FALSE, IntVal(0)),
                   Fld("infants_on_lap", "int", FALSE, IntVal(0)),
                   Fld("types", "int", FALSE, IntVal(1)) >>]

HotelsInput ==
    [model |-> "HotelsInput",
     fields |-> << Fld("q", "str", TRUE, NoneVal),
                   Fld("check_in_date", "str", TRUE, NoneVal),
                   Fld("check_out_date", "str", TRUE, NoneVal),
                   Fld("sort_by", "str", FALSE, IntVal(8)),
                   Fld("adults", "int", FALSE, IntVal(1)),
                   Fld("children", "int", FALSE, IntVal(0)),
                   Fld("rooms", "int", FALSE, IntVal(1)),
                   Fld("hotel_class", "str", FALSE, NoneVal) >>]

FieldNames(schema) == {schema.fields[i].name : i \in 1..Len(schema.fields)}

RECURSIVE FieldErrors(_, _)
\* the (field, message) pairs of pydantic's ValidationError, in field order
FieldErrors(fields, args) ==
    IF fields = <<>> THEN <<>>
    ELSE LET f == Head(fields)
             rest == FieldErrors(Tail(fields), args)
         IN IF f.name \notin DOMAIN args
            THEN IF f.required THEN <<f.name, "field required">> \o rest ELSE rest
            ELSE IF ValueError(f, args[f.name]) # ""
                 THEN <<f.name, ValueError(f, args[f.name])>> \o rest
                 ELSE rest

FieldOf(schema, n) ==
    schema.fields[CHOOSE i \in 1..Len(schema.fields) : schema.fields[i].name = n]

DefaultOf(schema, n) == FieldOf(schema, n).default

\* args_schema(**args): the validated model (undeclared keys are ignored,
\* supplied values are coerced to the field's type, absent fields take their
\* default unvalidated), or the raised ValidationError
args_schema(schema, args) ==
    LET errs == FieldErrors(schema.fields, args)
    IN IF errs # <<>>
       THEN [raised |-> TRUE,
             exc |-> <<"validation error for ", schema.model>> \o errs,
             value |-> [n \in {} |-> NoneVal]]
       ELSE [raised |-> FALSE,
             exc |-> <<>>,
             value |-> [n \in FieldNames(schema) |->
                          IF n \in DOMAIN args
                          THEN Coerce(FieldOf(schema, n), args[n])
                          ELSE DefaultOf(schema, n)]]

\* -------------------------------------------------------------- the tools
\* what serpapi.search does on one call
ServiceOutcomes == {"ok", "missing_key", "raise"}

RECURSIVE MissingAttr(_, _)
\* the first attribute read from params that the model does not have, or ""
MissingAttr(attrs, params) ==
    IF attrs = <<>> THEN ""
    ELSE IF Head(attrs) \notin DOMAIN params THEN Head(attrs)
         ELSE MissingAttr(Tail(attrs), params)

AttributeError(model, attr) ==
    <<"'", model, "' object has no attribute '", attr, "'">>

FlightsAttrsRead ==
    <<"departure_id", "arrival_id", "outbound_date", "return_date", "adults",
      "infants_in_seat", "infants_on_lap", "children", "type">>

HotelsAttrsRead ==
    <<"q", "check_in_date", "check_out_date", "adults", "children", "rooms",
      "sort_by", "hotel_class">>

\* A tool function's outcome: raised/exc when an exception leaves the
\* function, else value = str(result); service tells what became of the
\* serpapi call ("not_called", "ok", "failed").
Raised(exc) == [raised |-> TRUE, exc |-> exc, value |-> <<>>, service |-> "not_called"]

Returned(value, service) ==
    [raised |-> FALSE, exc |-> <<>>, value |-> value, service |-> service]

flights_searcher(params, outcome) ==
    LET missing == MissingAttr(FlightsAttrsRead, params)
    IN IF missing # ""
       THEN Raised(AttributeError("FlightsInput", missing))
       ELSE CASE outcome = "ok" -> Returned(<<"best_flights">>, "ok")
              [] outcome = "missing_key" -> Returned(<<"No flights found.">>, "ok")
              [] OTHER -> Returned(<<"None">>, "failed")

hotels_searcher(params, outcome) ==
    LET missing == MissingAttr(HotelsAttrsRead, params)
    IN IF missing # ""
       THEN Raised(AttributeError("HotelsInput", missing))
       ELSE CASE outcome = "ok" -> Returned(<<"properties[:5]">>, "ok")
              [] OTHER -> Returned(<<"None">>, "failed")

tools ==
    << [name |-> "flights_searcher", args_schema |-> FlightsInput],
       [name |-> "hotels_searcher", args_schema |-> HotelsInput] >>

func(name, params, outcome) ==
    IF name = "flights_searcher" THEN flights_searcher(params, outcome)
    ELSE hotels_searcher(params, outcome)

\* next((t for t in self.tools if t.name == name), None): index in tools, 0 for None
Lookup(name) ==
    LET hits == {i \in 1..Len(tools) : tools[i].name = name}
    IN IF hits = {} THEN 0 ELSE CHOOSE i \in hits : \A j \in hits : i <= j

\* ---------------------------------------------------------- tool_executor
\* faulty variant: the result is tagged with a neighbouring identifier
ResultTag_OffByOne(tool_call) == tool_call.id + 1

\* tool_call_id=tool_call["id"]
ResultTag(tool_call) == tool_call.id

\* One pass of the for loop: the ToolMessages appended for one request
\* (msgs) and what happened to it (event).
ExecuteOne(tool_call, outcome) ==
    LET t == Lookup(tool_call.name)
    IN IF t = 0
       THEN [msgs |-> <<>>, event |-> "unknown_tool"]
       ELSE LET parsed == args_schema(tools[t].args_schema, tool_call.args)
            IN IF parsed.raised
               THEN [msgs |-> <<ToolMessage(ResultTag(tool_call), <<"Tool error: ">> \o parsed.exc)>>,
                     event |-> "validation_error"]
               ELSE LET result == func(tools[t].name, parsed.value, outcome)
                    IN IF result.raised
                       THEN [msgs |-> <<ToolMessage(ResultTag(tool_call), <<"Tool error: ">> \o result.exc)>>,
                             event |-> "func_raised"]
                       ELSE [msgs |-> <<ToolMessage(ResultTag(tool_call), result.value)>>,
                             event |-> IF result.service = "failed"
                                       THEN "service_failed" ELSE "ok"]

RECURSIVE ExecuteAll_Prepending(_, _)
\* faulty variant: new_messages.insert(0, ...) instead of append
ExecuteAll_Prepending(tool_calls, outcomes) ==
    IF tool_calls = <<>> THEN [msgs |-> <<>>, events |-> <<>>]
    ELSE LET one == ExecuteOne(Head(tool_calls), Head(outcomes))
             rest == ExecuteAll_Prepending(Tail(tool_calls), Tail(outcomes))
         IN [msgs |-> rest.msgs \o one.msgs,
             events |-> <<one.event>> \o rest.events]

RECURSIVE ExecuteAll_StopAtFailure(_, _)
\* faulty variant: the loop is left at the first request that raises
ExecuteAll_StopAtFailure(tool_calls, outcomes) ==
    IF tool_calls = <<>> THEN [msgs |-> <<>>, events |-> <<>>]
    ELSE LET one == ExecuteOne(Head(tool_calls), Head(outcomes))
             rest == ExecuteAll_StopAtFailure(Tail(tool_calls), Tail(outcomes))
         IN [msgs |-> IF one.event \in {"validation_error", "func_raised"}
                      THEN one.msgs ELSE one.msgs \o rest.msgs,
             events |-> <<one.event>> \o rest.events]

RECURSIVE ExecuteAll(_, _)
\* the for loop over last_message.tool_calls, in order
ExecuteAll(tool_calls, outcomes) ==
    IF tool_calls = <<>> THEN [msgs |-> <<>>, events |-> <<>>]
    ELSE LET one == ExecuteOne(Head(tool_calls), Head(outcomes))
             rest == ExecuteAll(Tail(tool_calls), Tail(outcomes))
         IN [msgs |-> one.msgs \o rest.msgs,
             events |-> <<one.event>> \o rest.events]

\* ------------------------------------------------- what the model can emit
JFK == StrVal(<<"J", "F", "K">>)

LAX == StrVal(<<"L", "A", "X">>)

Paris == StrVal(<<"P", "a", "r", "i", "s">>)

March1 == StrVal(<<"2", "0", "2", "5", "-", "0", "3", "-", "0", "1">>)

March10 == StrVal(<<"2", "0", "2", "5", "-", "0", "3", "-", "1", "0">>)

\* valid: adults an integer, children a numeric string, type an undeclared key
FlightArgsGood ==
    [departure_id |-> JFK, arrival_id |-> LAX, outbound_date |-> March1,
     return_date |-> March10, adults |-> IntVal(2),
     children |-> StrVal(<<" ", "1", "0">>), type |-> IntVal(1)]

FlightArgsBad == [departure_id |-> JFK, adults |-> StrVal(<<"t", "w", "o">>)]

HotelArgsGood ==
    [q |-> Paris, check_in_date |-> March1, check_out_date |-> March10,
     rooms |-> StrVal(<<"+", "1">>), hotel_class |-> IntVal(4)]

HotelArgsReversedDates ==
    [q |-> Paris, check_in_date |-> March10, check_out_date |-> March1]

HotelArgsMissing == [q |-> Paris, rooms |-> StrVal(<<"m", "a", "n", "y">>)]

\* name and raw arguments of one tool-call request
ToolCallChoices ==
    { [name |-> "flights_searcher", args |-> FlightArgsGood],
      [name |-> "flights_searcher", args |-> FlightArgsBad],
      [name |-> "hotels_searcher", args |-> HotelArgsGood],
      [name |-> "hotels_searcher", args |-> HotelArgsReversedDates],
      [name |-> "hotels_searcher", args |-> HotelArgsMissing],
      [name |-> "car_rental", args |-> HotelArgsGood] }

\* the requests of one Assistant message, identifiers unique and fresh
ToolCalls(choices, n) ==
    [i \in 1..Len(choices) |->
        [id |-> n + i, name |-> choices[i].name, args |-> choices[i].args]]

\* name and arguments of the requests of a batch, as the model emitted them
ChoicesOf(tool_calls) ==
    [i \in 1..Len(tool_calls) |->
        [name |-> tool_calls[i].name, args |-> tool_calls[i].args]]

UserText(k) == <<"user input ", ToString(k)>>

AssistantText(k) == <<"assistant text ", ToString(k)>>

\* the position of the nearest Assistant message before position k, 0 if none
NearestAssistantBefore(ms, k) ==
    LET before == {j \in 1..(k - 1) : ms[j].type = "ai"}
    IN IF before = {} THEN 0 ELSE CHOOSE j \in before : \A h \in before : h <= j

LastAssistant(ms) == NearestAssistantBefore(ms, Len(ms) + 1)

\* ------------------------------------------------------------------- Init
EmptyBatch == [requests |-> <<>>, results |-> <<>>, events |-> <<>>]

Init ==
    /\ conversation_history = <<>>
    /\ agent_messages = <<>>
    /\ messages = <<>>
    /\ pc = "idle"
    /\ llm_input = <<>>
    /\ run_input = <<>>
    /\ run_steps = <<>>
    /\ batch = EmptyBatch
    /\ run_outcome = "none"
    /\ turn = 0
    /\ model_calls = 0
    /\ drawn_calls = 0
    /\ drawn_requests = 0
    /\ next_call = 0
    /\ next_id = 0

\* ---------------------------------------------------------------- actions
\* app.py: a chat input arrives; the handler records it and invokes the graph
\* on the session's agent context (the graph's reducer gives ids to the
\* message objects it is handed).
UserInput ==
    /\ pc = "idle"
    /\ turn < MaxTurns
    /\ LET user_input == UserText(turn + 1)
           state == Append(agent_messages, HumanMessage(user_input))
       IN /\ conversation_history' =
                Append(conversation_history, [type |-> "user", content |-> user_input])
          /\ agent_messages' = AssignIds(state, next_id)
          /\ messages' = add_messages(<<>>, state, next_id)
          /\ run_input' = AssignIds(state, next_id)
          /\ next_id' = next_id + NumFresh(state)
    /\ pc' = "thinking"
    /\ run_steps' = <<>>
    /\ run_outcome' = "running"
    /\ turn' = turn + 1
    /\ UNCHANGED <<llm_input, batch, model_calls, drawn_calls, drawn_requests,
                   next_call>>

\* faulty variant: the conditional edge always leads to END
Route_AlwaysEnd(ms) == "END"

\* faulty variant: the conditional edge always leads to tool_executor
Route_AlwaysTools(ms) == "tool_executor"

\* the conditional edge after handle_conversation_flow
Route(ms) ==
    IF ms[Len(ms)].tool_calls # <<>> THEN "tool_executor" ELSE "END"

\* the list handed to self.llm.invoke
LlmMessages(ms) == <<SystemMessage(system_prompt)>> \o ms

\* faulty variant: the node returns the list it handed to the model plus the answer
NodeUpdate_WithDirective(ms, message) == LlmMessages(ms) \o <<message>>

\* return {"messages": message}
NodeUpdate(ms, message) == <<message>>

\* faulty variant: the edge out of tool_executor leads to END
AfterToolExecutor_End == "END"

\* builder.add_edge("tool_executor", "handle_conversation_flow")
AfterToolExecutor == "handle_conversation_flow"

Step(node, emitted) == [node |-> node, emitted |-> emitted]

\* graph.invoke runs the node that is due as long as at most recursion_limit
\* supersteps have run
WithinLimit == Len(run_steps) <= recursion_limit

\* the latest tool_executor step of the run answered a batch none of whose
\* requests reached the search service
Unserved ==
    /\ run_steps # <<>>
    /\ run_steps[Len(run_steps)].node = "tool_executor"
    /\ \A i \in 1..Len(batch.events) : batch.events[i] \notin {"ok", "service_failed"}

\* the model has issued that batch twice in a row
Reissuing ==
    /\ Unserved
    /\ Len(run_steps) >= 4
    /\ LET a == LastAssistant(messages)
           b == NearestAssistantBefore(messages, a)
       IN ChoicesOf(messages[a].tool_calls) = ChoicesOf(messages[b].tool_calls)

\* the response issues that batch once more
Reissued(choices) == Reissuing /\ choices = ChoicesOf(batch.requests)

\* the model may draw a response holding n requests
Drawable(n) ==
    /\ drawn_calls < MaxModelCalls
    /\ drawn_requests + n <= MaxToolCalls

\* the responses the model may give now
Answerable(choices) == Reissued(choices) \/ Drawable(Len(choices))

\* node handle_conversation_flow, the model answering with the given requests
handle_conversation_flow(choices) ==
    /\ pc = "thinking"
    /\ WithinLimit
    /\ Answerable(choices)
    /\ drawn_calls' = IF Reissued(choices) THEN drawn_calls ELSE drawn_calls + 1
    /\ drawn_requests' =
           IF Reissued(choices) THEN drawn_requests ELSE drawn_requests + Len(choices)
    /\ LET message == AIMessage(AssistantText(model_calls + 1),
                                ToolCalls(choices, next_call))
           update == NodeUpdate(messages, message)
           merged == add_messages(messages, update, next_id)
       IN /\ llm_input' = LlmMessages(messages)
          /\ messages' = merged
          /\ pc' = IF Route(merged) = "tool_executor" THEN "acting" ELSE "end"
          /\ next_id' = next_id + NumFresh(update)
    /\ next_call' = next_call + Len(choices)
    /\ model_calls' = model_calls + 1
    /\ run_steps' = Append(run_steps, Step("handle_conversation_flow", Len(choices)))
    /\ UNCHANGED <<conversation_history, agent_messages, run_input, batch,
                   run_outcome, turn>>

\* faulty variant: the failure is swallowed and the model call is tried again
ModelCallFails_Retry ==
    /\ pc = "thinking"
    /\ WithinLimit
    /\ Drawable(0)
    /\ llm_input' = LlmMessages(messages)
    /\ model_calls' = model_calls + 1
    /\ drawn_calls' = drawn_calls + 1
    /\ run_steps' = Append(run_steps, Step("handle_conversation_flow", -1))
    /\ pc' = "thinking"
    /\ UNCHANGED <<conversation_history, agent_messages, messages, run_input,
                   batch, run_outcome, turn, drawn_requests, next_call, next_id>>

\* node handle_conversation_flow, self.llm.invoke raising: the exception
\* leaves graph.invoke and the handler of app.py
ModelCallFails ==
    /\ pc = "thinking"
    /\ WithinLimit
    /\ Drawable(0)
    /\ llm_input' = LlmMessages(messages)
    /\ model_calls' = model_calls + 1
    /\ drawn_calls' = drawn_calls + 1
    /\ run_steps' = Append(run_steps, Step("handle_conversation_flow", -1))
    /\ run_outcome' = "raised"
    /\ pc' = "idle"
    /\ UNCHANGED <<conversation_history, agent_messages, messages, run_input,
                   batch, turn, drawn_requests, next_call, next_id>>

\* node tool_executor, serpapi behaving as outcomes[i] on the i-th request
tool_executor(outcomes) ==
    /\ pc = "acting"
    /\ WithinLimit
    /\ LET last_message == messages[Len(messages)]
           done == ExecuteAll(last_message.tool_calls, outcomes)
           merged == add_messages(messages, done.msgs, next_id)
       IN /\ Len(outcomes) = Len(last_message.tool_calls)
          /\ messages' = merged
          /\ batch' = [requests |-> last_message.tool_calls,
                       results |-> done.msgs,
                       events |-> done.events]
          /\ next_id' = next_id + Len(done.msgs)
          /\ run_steps' = Append(run_steps, Step("tool_executor", Len(done.msgs)))
    /\ pc' = IF AfterToolExecutor = "handle_conversation_flow" THEN "thinking" ELSE "end"
    /\ UNCHANGED <<conversation_history, agent_messages, llm_input, run_input,
                   run_outcome, turn, model_calls, drawn_calls, drawn_requests,
                   next_call>>

\* graph.invoke gives up: recursion_limit supersteps have run and a node is
\* still due.  langgraph raises GraphRecursionError, which leaves graph.invoke
\* and the handler of app.py like any other exception.  The repository pins
\* no release of langgraph; whether the node that is due at the limit still
\* runs before the error is raised is left open, so the error is possible
\* both before and after that superstep.
GraphRecursionError ==
    /\ pc \in {"thinking", "acting"}
    /\ Len(run_steps) >= recursion_limit
    /\ run_outcome' = "raised"
    /\ pc' = "idle"
    /\ UNCHANGED <<conversation_history, agent_messages, messages, llm_input,
                   run_input, run_steps, batch, turn, model_calls, drawn_calls,
                   drawn_requests, next_call, next_id>>

RECURSIVE ProcessMessages_FirstAssistant(_, _, _)
\* faulty variant: assistant_response is set only while it is still None
ProcessMessages_FirstAssistant(new_messages, context, assistant_response) ==
    IF new_messages = <<>>
    THEN [agent_messages |-> context, assistant_response |-> assistant_response]
    ELSE LET message == Head(new_messages)
         IN IF message.type = "tool"
            THEN ProcessMessages_FirstAssistant(Tail(new_messages),
                                                Append(context, message),
                                                assistant_response)
            ELSE IF message.type # "human"
                 THEN ProcessMessages_FirstAssistant(
                          Tail(new_messages), Append(context, message),
                          IF assistant_response = <<>> THEN <<message>>
                          ELSE assistant_response)
                 ELSE ProcessMessages_FirstAssistant(Tail(new_messages), context,
                                                     assistant_response)

RECURSIVE ProcessMessages(_, _, _)
\* app.py's loop over result["messages"]: the new agent context and the
\* last non-tool, non-human message seen (<<>> for None)
ProcessMessages(new_messages, context, assistant_response) ==
    IF new_messages = <<>>
    THEN [agent_messages |-> context, assistant_response |-> assistant_response]
    ELSE LET message == Head(new_messages)
         IN IF message.type = "tool"
            THEN ProcessMessages(Tail(new_messages), Append(context, message),
                                 assistant_response)
            ELSE IF message.type # "human"
                 THEN ProcessMessages(Tail(new_messages), Append(context, message),
                                      <<message>>)
                 ELSE ProcessMessages(Tail(new_messages), context, assistant_response)

\* app.py: graph.invoke returned; the handler files the result
ProcessResult ==
    /\ pc = "end"
    /\ LET processed == ProcessMessages(messages, agent_messages, <<>>)
       IN /\ agent_messages' = processed.agent_messages
          /\ conversation_history' =
                IF processed.assistant_response # <<>>
                THEN Append(conversation_history,
                            [type |-> "assistant",
                             content |-> processed.assistant_response[1].content])
                ELSE conversation_history
    /\ pc' = "idle"
    /\ run_outcome' = "returned"
    /\ UNCHANGED <<messages, llm_input, run_input, run_steps, batch, turn,
                   model_calls, drawn_calls, drawn_requests, next_call, next_id>>

Next ==
    \/ UserInput
    \/ \E choices \in SeqsUpTo(ToolCallChoices, MaxToolCalls) :
           handle_conversation_flow(choices)
    \/ ModelCallFails
    \/ \E outcomes \in SeqsUpTo(ServiceOutcomes, MaxToolCalls) :
           tool_executor(outcomes)
    \/ GraphRecursionError
    \/ ProcessResult

Spec == Init /\ [][Next]_vars

TypeOK ==
    /\ pc \in {"idle", "thinking", "acting", "end"}
    /\ turn \in 0..MaxTurns
    /\ run_outcome \in {"none", "running", "returned", "raised"}
    /\ Len(run_steps) <= recursion_limit + 1
    /\ drawn_calls \in 0..MaxModelCalls
    /\ drawn_requests \in 0..MaxToolCalls
    /\ model_calls \in Nat
    /\ next_call \in Nat

\* ------------------------------------------------------------- properties
\* Vocabulary of the properties below.  A tool_executor step has just acted
\* when it is the last step of a run that graph.invoke has not given up;
\* batch then holds its requests and the ToolMessages it returned.
ToolStepDone ==
    /\ run_steps # <<>>
    /\ run_steps[Len(run_steps)].node = "tool_executor"
    /\ run_outcome # "raised"

ResultsFor(id) == {k \in 1..Len(batch.results) : batch.results[k].tool_call_id = id}

IsErrorContent(content) == content # <<>> /\ content[1] = "Tool error: "

\* C1: after a tool_executor step on an Assistant message with N >= 1
\* requests, the step has returned exactly N ToolMessages, one per request
\* identifier, none duplicated and none omitted.
C1_OneResultPerRequest ==
    ToolStepDone =>
        /\ Len(batch.results) = Len(batch.requests)
        /\ \A i \in 1..Len(batch.requests) :
               Cardinality(ResultsFor(batch.requests[i].id)) = 1
        /\ \A k \in 1..Len(batch.results) :
               \E i \in 1..Len(batch.requests) :
                   batch.results[k].tool_call_id = batch.requests[i].id

\* C2: a request naming a tool that is not in self.tools yields a ToolMessage
\* tagged with the request's identifier whose content is an error string
\* naming the unknown tool, and the loop goes on to the next model call.
C2_UnknownToolYieldsError ==
    ToolStepDone =>
        /\ pc = "thinking"
        /\ \A i \in 1..Len(batch.requests) :
               Lookup(batch.requests[i].name) = 0 =>
                   \E k \in ResultsFor(batch.requests[i].id) :
                       /\ IsErrorContent(batch.results[k].content)
                       /\ batch.requests[i].name \in Range(batch.results[k].content)

CallIds(message) == {message.tool_calls[i].id : i \in 1..Len(message.tool_calls)}

\* C3: in every conversation state, each ToolMessage carries a tool_call_id
\* emitted by the nearest preceding Assistant message (no orphaned result).
C3_NoOrphanedToolResult ==
    \A k \in 1..Len(messages) :
        messages[k].type = "tool" =>
            LET a == NearestAssistantBefore(messages, k)
            IN a # 0 /\ messages[k].tool_call_id \in CallIds(messages[a])

\* a second-turn state holding ToolMessages of two Acting steps
C3_Witness ==
    /\ turn = 2
    /\ ToolStepDone
    /\ batch.results # <<>>
    /\ Cardinality({k \in 1..Len(messages) : messages[k].type = "tool"}) >= 2

FirstResponseHasNoCalls ==
    /\ run_outcome \in {"running", "returned"}
    /\ run_steps # <<>>
    /\ run_steps[1].emitted = 0

\* C4: when the first model response of a run carries no tool-call request,
\* the run ends after that one model call and no tool_executor step, and its
\* result is the input history unchanged followed by that Assistant message.
C4_NoCallsEndsAfterOneModelCall ==
    FirstResponseHasNoCalls =>
        /\ run_steps = <<Step("handle_conversation_flow", 0)>>
        /\ (run_outcome = "running" => pc = "end")
        /\ Len(messages) = Len(run_input) + 1
        /\ SubSeq(messages, 1, Len(run_input)) = run_input
        /\ messages[Len(messages)].type = "ai"
        /\ messages[Len(messages)].tool_calls = <<>>

\* such a run, over a history carried over from a first turn that used tools
C4_Witness ==
    /\ FirstResponseHasNoCalls
    /\ pc = "end"
    /\ turn = 2
    /\ \E k \in 1..Len(run_input) : run_input[k].type = "tool"


\* the positions in the history of the ToolMessages of the latest Acting step
AppendedAt(id) ==
    {k \in (LastAssistant(messages) + 1)..Len(messages) :
         messages[k].type = "tool" /\ messages[k].tool_call_id = id}

\* C6: the results of one Acting step stand in the history in request order:
\* for requests i before j of the same Assistant message, the ToolMessage
\* tagged with i's identifier precedes the one tagged with j's.
C6_ResultsInRequestOrder ==
    ToolStepDone =>
        \A i, j \in 1..Len(batch.requests) :
            i < j =>
                /\ \A p \in ResultsFor(batch.requests[i].id),
                      q \in ResultsFor(batch.requests[j].id) : p < q
                /\ \A p \in AppendedAt(batch.requests[i].id),
                      q \in AppendedAt(batch.requests[j].id) : p < q

\* a batch of two requests to different tools, each answered in the history
C6_Witness ==
    /\ ToolStepDone
    /\ Len(batch.requests) = 2
    /\ batch.requests[1].name # batch.requests[2].name
    /\ \A i \in 1..2 : AppendedAt(batch.requests[i].id) # {}

Raising(event) == event \in {"validation_error", "func_raised"}

\* C7: tool_executor never fails as a whole: a request whose validation or
\* execution function raises gets a ToolMessage carrying the failure, every
\* other request of the batch whose tool is registered is still executed and
\* answered, and the run goes on to the next model call.
C7_FailureStaysInItsRequest ==
    ToolStepDone =>
        /\ pc = "thinking"
        /\ run_outcome = "running"
        /\ \A i \in 1..Len(batch.requests) :
               /\ Raising(batch.events[i]) =>
                      /\ Cardinality(ResultsFor(batch.requests[i].id)) = 1
                      /\ \A k \in ResultsFor(batch.requests[i].id) :
                             IsErrorContent(batch.results[k].content)
               /\ Lookup(batch.requests[i].name) # 0 =>
                      Cardinality(AppendedAt(batch.requests[i].id)) = 1
               /\ batch.events[i] = "ok" =>
                      \A k \in ResultsFor(batch.requests[i].id) :
                          ~IsErrorContent(batch.results[k].content)

\* a batch whose first request raised and whose later request succeeded
C7_Witness ==
    /\ ToolStepDone
    /\ \E i, j \in 1..Len(batch.requests) :
           /\ i < j
           /\ Raising(batch.events[i])
           /\ batch.events[j] = "ok"

\* C8: when the search service fails during a flight or hotel call, the
\* ToolMessage of that request is an error result describing the failure.
C8_ServiceFailureIsErrorResult ==
    ToolStepDone =>
        \A i \in 1..Len(batch.requests) :
            batch.events[i] = "service_failed" =>
                \E k \in ResultsFor(batch.requests[i].id) :
                    IsErrorContent(batch.results[k].content)

\* the tag of a result: the literal the executor puts in front of str(e)
ErrorTag(content) == IF IsErrorContent(content) THEN content[1] ELSE ""

\* C9: a ToolMessage for a schema-validation failure is tagged differently
\* from a ToolMessage for a failure of the tool or its service.
C9_ValidationTaggedApart ==
    ToolStepDone =>
        \A i, j \in 1..Len(batch.requests) :
            /\ batch.events[i] = "validation_error"
            /\ batch.events[j] \in {"func_raised", "service_failed"}
            => \A p \in ResultsFor(batch.requests[i].id),
                  q \in ResultsFor(batch.requests[j].id) :
                   ErrorTag(batch.results[p].content) # ErrorTag(batch.results[q].content)

NumSystem(ms) == Cardinality({k \in 1..Len(ms) : ms[k].type = "system"})

\* C10: every message list passed to the model holds the system directive
\* exactly once, as its first message.
C10_DirectiveOnceAndFirst ==
    llm_input # <<>> =>
        /\ llm_input[1] = SystemMessage(system_prompt)
        /\ NumSystem(llm_input) = 1

\* the second model call of a second-turn run over a carried-over history
C10_Witness ==
    /\ turn = 2
    /\ Len(run_steps) = 3
    /\ run_steps[3].emitted >= 0
    /\ \E k \in 1..Len(run_input) : run_input[k].type = "ai"
    /\ llm_input = LlmMessages(SubSeq(messages, 1, Len(messages) - 1))

IsPrefix(s, t) == Len(s) <= Len(t) /\ SubSeq(t, 1, Len(s)) = s

\* C11: the conversation state is append-only within a run: across every
\* model step and every tool_executor step the old message sequence is a
\* prefix of the new one.
C11_AppendOnlyWithinRun ==
    [][(pc \in {"thinking", "acting"}) => IsPrefix(messages, messages')]_vars

\* a run that has appended a response with requests, their results and a
\* further response to a history carried over from an earlier turn
C11_Witness ==
    /\ turn = 2
    /\ Len(run_steps) = 3
    /\ run_steps[3].emitted >= 0
    /\ run_steps[2].emitted >= 1
    /\ Len(messages) >= Len(run_input) + 3
    /\ IsPrefix(run_input, messages)

FailedSteps == {i \in 1..Len(run_steps) : run_steps[i].emitted = -1}

\* C12: a failed model call ends the run: the failure reaches the caller
\* (the run has raised, nothing of it is filed in the session), it is the
\* last step of the run, and no model call or tool execution follows it.
C12_ModelFailureEndsRun ==
    \A i \in FailedSteps :
        /\ i = Len(run_steps)
        /\ run_outcome = "raised"
        /\ pc = "idle"
        /\ agent_messages = run_input
        /\ conversation_history # <<>>
        /\ conversation_history[Len(conversation_history)].type = "user"

\* a model call that failed after a round of tool execution
C12_Witness ==
    /\ run_outcome = "raised"
    /\ Len(run_steps) = 3
    /\ run_steps[2].node = "tool_executor"
    /\ run_steps[2].emitted >= 1

ModelSteps == {i \in 1..Len(run_steps) : run_steps[i].node = "handle_conversation_flow"}

RunReturns == pc = "end" \/ run_outcome = "returned"

\* a run returns only at its first model response without requests
ReturnsAtFirstResponseWithoutCalls ==
    /\ RunReturns =>
           /\ run_steps # <<>>
           /\ run_steps[Len(run_steps)] = Step("handle_conversation_flow", 0)
           /\ \A i \in ModelSteps : i < Len(run_steps) => run_steps[i].emitted >= 1
           /\ messages[Len(messages)].type = "ai"
           /\ messages[Len(messages)].tool_calls = <<>>
           /\ messages[LastAssistant(messages)].tool_calls = <<>>
    /\ \A i \in ModelSteps :
           run_steps[i].emitted = 0 => i = Len(run_steps) /\ RunReturns

\* graph.invoke gave up the run: it raised although no node did
GivenUp == run_outcome = "raised" /\ FailedSteps = {}

\* C13 as claimed: termination is the only path out of the loop and there is
\* no turn limit: a run returns exactly at its first model response without
\* requests, never while requests are pending, and a run all of whose model
\* calls were answered is never ended in another way.
C13_TerminationOnlyPathOut ==
    /\ ReturnsAtFirstResponseWithoutCalls
    /\ ~GivenUp

\* C13 as amended: a run returns exactly at its first model response without
\* requests, with that response as the last message of the result, and never
\* while requests are pending; a run whose responses all carry requests is
\* given up with an error to the caller once recursion_limit supersteps have
\* run, not earlier and at most one superstep later, and nothing of it is
\* filed in the session.
C13_ReturnsAtFirstResponseWithoutCallsOrGivenUp ==
    /\ ReturnsAtFirstResponseWithoutCalls
    /\ GivenUp =>
           /\ Len(run_steps) \in {recursion_limit, recursion_limit + 1}
           /\ \A i \in ModelSteps : run_steps[i].emitted >= 1
           /\ messages[LastAssistant(messages)].tool_calls # <<>>
           /\ pc = "idle"
           /\ agent_messages = run_input
    /\ Len(run_steps) <= recursion_limit + 1

\* a run given up at the limit, after twelve rounds of tools were answered
C13_Witness ==
    /\ GivenUp
    /\ Len(run_steps) >= recursion_limit
    /\ Cardinality({i \in 1..Len(run_steps) : run_steps[i].node = "tool_executor"}) >= 12

TurnCompleted == pc = "idle" /\ run_outcome = "returned"

\* C15: after each completed turn the agent context is the context the run
\* was started on (the previous context plus the new user message) followed
\* by the messages generated in that run, and no message occurs in it twice.
C15_OnlyNewMessagesAdded ==
    TurnCompleted =>
        /\ agent_messages = messages
        /\ \A k, l \in 1..Len(agent_messages) :
               agent_messages[k].id = agent_messages[l].id => k = l

Entry(type, content) == [type |-> type, content |-> content]

\* what one step may do to the displayed history: taking the user input adds
\* one user entry, filing the result of a returned run adds one assistant
\* entry holding the content of the run's final Assistant message, and the
\* steps of the run in between add nothing
DisplayStep ==
    /\ (pc = "idle") =>
           conversation_history' =
               Append(conversation_history,
                      Entry("user", messages'[Len(messages')].content))
    /\ (pc \in {"thinking", "acting"}) =>
           conversation_history' = conversation_history
    /\ (pc = "end") =>
           /\ messages[Len(messages)].type = "ai"
           /\ messages[Len(messages)].tool_calls = <<>>
           /\ conversation_history' =
                  Append(conversation_history,
                         Entry("assistant", messages[Len(messages)].content))

\* C16: each completed turn adds to conversation_history exactly one user
\* entry and one assistant entry, the latter with the content of the final
\* Assistant message of the run; tool results and intermediate Assistant
\* messages are never added.
C16_OneUserOneAssistantEntry == [][DisplayStep]_vars

\* a second turn completed after a round of tools: four entries, the last
\* one showing the final answer and not the tool-calling message before it
C16_Witness ==
    /\ TurnCompleted
    /\ turn = 2
    /\ Len(run_steps) = 3
    /\ run_steps[2].emitted >= 1
    /\ Len(conversation_history) = 4
    /\ conversation_history[4] = Entry("assistant", messages[Len(messages)].content)
    /\ conversation_history[4].content # messages[Len(messages) - 2].content

ValidFlightRequest(request) ==
    /\ request.name = "flights_searcher"
    /\ FieldErrors(FlightsInput.fields, request.args) = <<>>

\* C17: for a flight request whose arguments pass FlightsInput validation the
\* executor reaches the external flight search (the function does not raise
\* before it), and when the search succeeds the ToolMessage content is the
\* serialized result, best flights or "No flights found.", not a
\* "Tool error" string.
C17_ValidFlightCallReachesSearch ==
    ToolStepDone =>
        \A i \in 1..Len(batch.requests) :
            ValidFlightRequest(batch.requests[i]) =>
                /\ batch.events[i] \in {"ok", "service_failed"}
                /\ batch.events[i] = "ok" =>
                       \A k \in ResultsFor(batch.requests[i].id) :
                           batch.results[k].content \in
                               {<<"best_flights">>, <<"No flights found.">>}

\* the position of the first Assistant or User message after position a,
\* Len(ms) + 1 if there is none
NextTurnAfter(ms, a) ==
    LET later == {j \in (a + 1)..Len(ms) : ms[j].type \in {"ai", "human"}}
    IN IF later = {} THEN Len(ms) + 1 ELSE CHOOSE j \in later : \A h \in later : j <= h

\* no dangling request: every request of every Assistant message is answered
\* by a ToolMessage with its identifier before the next Assistant or User
\* message
WellFormed(ms) ==
    \A a \in 1..Len(ms) :
        ms[a].type = "ai" =>
            \A i \in 1..Len(ms[a].tool_calls) :
                \E k \in (a + 1)..(NextTurnAfter(ms, a) - 1) :
                    /\ ms[k].type = "tool"
                    /\ ms[k].tool_call_id = ms[a].tool_calls[i].id

\* C18: in a run started from a well-formed history, every message list
\* passed to the model is well-formed.
C18_ModelInputWellFormed ==
    (run_steps # <<>> /\ WellFormed(run_input)) => WellFormed(Tail(llm_input))

====
